---- MODULE Spec2Model ----
\* A model of the google-search tool: the search pipeline of googleSearch and
\* getGoogleSearchPageHtml (browser, context, challenge escalation, state
\* persistence), its two callers (the command line and the MCP tool handler),
\* and the in-page extraction closure.
EXTENDS Integers, Sequences, FiniteSets, TLC

\* ------------------------------------------------------------------ text
\* Texts, links and URLs are sequences of one-character strings, so that
\* includes(), startsWith() and trim() are computed and not assumed.

Max(a, b) == IF a >= b THEN a ELSE b
Min(a, b) == IF a <= b THEN a ELSE b

StartsWith(s, p) ==
    /\ Len(s) >= Len(p)
    /\ SubSeq(s, 1, Len(p)) = p

Includes(s, p) ==
    \E i \in 1..(Len(s) - Len(p) + 1) : SubSeq(s, i, i + Len(p) - 1) = p

RECURSIVE TrimStart(_)
TrimStart(s) ==
    IF s # <<>> /\ Head(s) = " " THEN TrimStart(Tail(s)) ELSE s

RECURSIVE TrimEnd(_)
TrimEnd(s) ==
    IF s # <<>> /\ s[Len(s)] = " " THEN TrimEnd(SubSeq(s, 1, Len(s) - 1)) ELSE s

Trim(s) == TrimEnd(TrimStart(s))

\* the index of the first occurrence of p in s (0: none)
IndexOf(s, p) ==
    IF Includes(s, p)
    THEN CHOOSE i \in 1..(Len(s) - Len(p) + 1) :
            /\ SubSeq(s, i, i + Len(p) - 1) = p
            /\ \A j \in 1..(i - 1) : SubSeq(s, j, j + Len(p) - 1) # p
    ELSE 0

\* String.prototype.replace with a string pattern: the first occurrence only
Replace(s, p, r) ==
    LET i == IndexOf(s, p)
    IN  IF i = 0 THEN s
        ELSE SubSeq(s, 1, i - 1) \o r \o SubSeq(s, i + Len(p), Len(s))

\* s ends with p
EndsWith(s, p) == Len(p) <= Len(s) /\ SubSeq(s, Len(s) - Len(p) + 1, Len(s)) = p

\* String.prototype.replace with a pattern anchored at the end (/p$/)
ReplaceAtEnd(s, p, r) ==
    IF EndsWith(s, p) THEN SubSeq(s, 1, Len(s) - Len(p)) \o r ELSE s

\* An optional DOM node is a sequence of length 0 (null) or 1 (its value).
Null == <<>>
Some(v) == <<v>>

Http == <<"h", "t", "t", "p">>
HttpsScheme == <<"h", "t", "t", "p", "s", ":", "/", "/">>
HttpScheme == <<"h", "t", "t", "p", ":", "/", "/">>
GoogleComSlash == <<"g", "o", "o", "g", "l", "e", ".", "c", "o", "m", "/">>
AccountsGoogle == <<"a", "c", "c", "o", "u", "n", "t", "s", ".", "g", "o", "o", "g", "l", "e">>
SupportGoogle == <<"s", "u", "p", "p", "o", "r", "t", ".", "g", "o", "o", "g", "l", "e">>

LinkA == HttpsScheme \o <<"a", ".", "i", "o", "/">>
LinkB == HttpScheme \o <<"b", ".", "i", "o", "/">>
LinkGoogle == HttpsScheme \o <<"w", "w", "w", ".">> \o GoogleComSlash \o <<"m">>
LinkGoogleUk == HttpsScheme \o <<"w", "w", "w", ".", "g", "o", "o", "g", "l", "e", ".", "c", "o", ".", "u", "k", "/", "m">>
LinkFtp == <<"f", "t", "p", ":", "/", "/", "c">>
LinkHttpx == <<"h", "t", "t", "p", "x", ":", "/", "/", "c">>
EmptyLink == <<>>

TextA == <<"A">>
TextB == <<"B", " ">>
TextBlank == <<" ">>
TextEmpty == <<>>
TextS == <<"s", "n", "i", "p">>

\* ------------------------------------------------------------ extraction
\* The closure given to page.evaluate. maxResults is a JavaScript number; the
\* model carries it in halves (maxResults2 = 2 * maxResults), so that 1.5 and
\* -0.5 are inputs too.

NumSelectorSets == 4

\* ResolveLink with the first anchor of the container consulted first
ResolveLinkContainerFirst(c) ==
    IF c.containerLink # Null THEN c.containerLink[1]
    ELSE IF c.linkInTitle # Null THEN c.linkInTitle[1]
    ELSE IF c.ancestorLink # Null THEN c.ancestorLink[1]
    ELSE EmptyLink

\* link resolution of one container, by priority
ResolveLink(c) ==
    IF c.linkInTitle # Null THEN c.linkInTitle[1]
    ELSE IF c.ancestorLink # Null THEN c.ancestorLink[1]
    ELSE IF c.containerLink # Null THEN c.containerLink[1]
    ELSE EmptyLink

\* snippet resolution of one container
ResolveSnippet(c) ==
    IF c.snippetEl # Null THEN Trim(c.snippetEl[1])
    ELSE LET alt == IF c.altSnippetEl # Null THEN Trim(c.altSnippetEl[1]) ELSE TextEmpty
         IN  IF alt = TextEmpty /\ c.textDiv # Null THEN Trim(c.textDiv[1]) ELSE alt

\* results.length >= maxResults
LimitReached(results, maxResults2) == 2 * Len(results) >= maxResults2

\* RejectedLink without the test for a link already seen
RejectedLinkNoSeen(link, seenUrls) ==
    \/ link = EmptyLink
    \/ ~StartsWith(link, Http)

\* the test that rejects a container's link
RejectedLink(link, seenUrls) ==
    \/ link = EmptyLink
    \/ ~StartsWith(link, Http)
    \/ link \in seenUrls

\* the body of the inner loop over containers, for one container
PrimaryVisit(acc, c, maxResults2) ==
    IF LimitReached(acc.results, maxResults2) THEN acc
    ELSE IF ~c.titleEl THEN acc
    ELSE LET title == Trim(c.titleText)
             link == ResolveLink(c)
         IN  IF RejectedLink(link, acc.seenUrls) THEN acc
             ELSE IF title # TextEmpty /\ link # EmptyLink
                  THEN [results |-> Append(acc.results,
                                      [title |-> title, link |-> link,
                                       snippet |-> ResolveSnippet(c), src |-> c.id]),
                        seenUrls |-> acc.seenUrls \cup {link}]
                  ELSE acc

RECURSIVE PrimaryLoop(_, _, _)
PrimaryLoop(acc, containers, maxResults2) ==
    IF containers = <<>> THEN acc
    ELSE PrimaryLoop(PrimaryVisit(acc, Head(containers), maxResults2),
                     Tail(containers), maxResults2)

\* document.querySelectorAll(selectors.container): document order
RECURSIVE QuerySelectorAll(_, _)
QuerySelectorAll(containers, sel) ==
    IF containers = <<>> THEN <<>>
    ELSE IF sel \in Head(containers).matches
         THEN <<Head(containers)>> \o QuerySelectorAll(Tail(containers), sel)
         ELSE QuerySelectorAll(Tail(containers), sel)

RECURSIVE PrimaryPass(_, _, _, _)
PrimaryPass(acc, containers, sel, maxResults2) ==
    IF sel > NumSelectorSets THEN acc
    ELSE PrimaryPass(PrimaryLoop(acc, QuerySelectorAll(containers, sel), maxResults2),
                     containers, sel + 1, maxResults2)

\* FallbackExcluded without the test for a link already seen
FallbackExcludedNoSeen(link, seenUrls) ==
    \/ link = EmptyLink
    \/ Includes(link, GoogleComSlash)
    \/ Includes(link, AccountsGoogle)
    \/ Includes(link, SupportGoogle)

\* the filter of the fallback pass
FallbackExcluded(link, seenUrls) ==
    \/ link = EmptyLink
    \/ link \in seenUrls
    \/ Includes(link, GoogleComSlash)
    \/ Includes(link, AccountsGoogle)
    \/ Includes(link, SupportGoogle)

\* the snippet of a fallback anchor: the first of up to three ancestors
\* whose text is longer than the threshold and differs from the title
RECURSIVE AncestorSnippet(_, _, _)
AncestorSnippet(parents, title, i) ==
    IF i >= 3 \/ parents = <<>> THEN TextEmpty
    ELSE LET text == Trim(Head(parents))
         IN  IF Len(text) > 20 /\ text # title THEN text
             ELSE AncestorSnippet(Tail(parents), title, i + 1)

FallbackVisit(acc, el, maxResults2) ==
    IF LimitReached(acc.results, maxResults2) THEN acc
    ELSE IF FallbackExcluded(el.href, acc.seenUrls) THEN acc
    ELSE LET title == Trim(el.text)
         IN  IF title = TextEmpty THEN acc
             ELSE [results |-> Append(acc.results,
                                 [title |-> title, link |-> el.href,
                                  snippet |-> AncestorSnippet(el.parents, title, 0),
                                  src |-> el.id]),
                   seenUrls |-> acc.seenUrls \cup {el.href}]

RECURSIVE FallbackLoop(_, _, _)
FallbackLoop(acc, anchors, maxResults2) ==
    IF anchors = <<>> THEN acc
    ELSE FallbackLoop(FallbackVisit(acc, Head(anchors), maxResults2),
                      Tail(anchors), maxResults2)

\* document.querySelectorAll("a[href^='http']")
RECURSIVE HttpAnchors(_)
HttpAnchors(anchors) ==
    IF anchors = <<>> THEN <<>>
    ELSE IF StartsWith(Head(anchors).href, Http)
         THEN <<Head(anchors)>> \o HttpAnchors(Tail(anchors))
         ELSE HttpAnchors(Tail(anchors))

FallbackPass(acc, anchors, maxResults2) ==
    IF 2 * Len(acc.results) < maxResults2
    THEN FallbackLoop(acc, HttpAnchors(anchors), maxResults2)
    ELSE acc

\* ToIntegerOrInfinity of a number given in halves: truncation toward zero
ToInteger(n2) == IF n2 >= 0 THEN n2 \div 2 ELSE -((-n2) \div 2)

\* Slice with the final truncation left out
SliceWhole(s, end2) == s

\* Array.prototype.slice(0, end)
Slice(s, end2) ==
    LET relEnd == ToInteger(end2)
        final == IF relEnd < 0 THEN Max(Len(s) + relEnd, 0) ELSE Min(relEnd, Len(s))
    IN  SubSeq(s, 1, final)

EmptyAcc == [results |-> <<>>, seenUrls |-> {}]

PrimaryResults(doc, maxResults2) ==
    PrimaryPass(EmptyAcc, doc.containers, 1, maxResults2)

\* the whole closure
EvaluateExtraction(doc, maxResults2) ==
    Slice(FallbackPass(PrimaryResults(doc, maxResults2), doc.anchors, maxResults2).results,
          maxResults2)


\* ---------------------------------------------------------------- identity

NoPreference == "no-preference"

\* getHostMachineConfig: locale, timezone from the host's UTC offset, colour
\* scheme from the host's local hour, the device name fixed to Desktop Chrome
TimezoneOf(timezoneOffset) ==
    IF timezoneOffset <= -480 /\ timezoneOffset > -600 THEN "Asia/Shanghai"
    ELSE IF timezoneOffset <= -540 THEN "Asia/Seoul"
    ELSE IF timezoneOffset <= -420 /\ timezoneOffset > -480 THEN "Asia/Bangkok"
    ELSE IF timezoneOffset <= 0 /\ timezoneOffset > -60 THEN "Europe/London"
    ELSE IF timezoneOffset <= 60 /\ timezoneOffset > 0 THEN "Europe/Berlin"
    ELSE IF timezoneOffset <= 300 /\ timezoneOffset > 240 THEN "America/New_York"
    ELSE "Asia/Seoul"

\* ColorSchemeOf with hour 19 on the light side
ColorSchemeLate(hour) == IF hour > 19 \/ hour < 7 THEN "dark" ELSE "light"

ColorSchemeOf(hour) == IF hour >= 19 \/ hour < 7 THEN "dark" ELSE "light"

NumOffsetRanges == 6

\* the conditions of the if-chain of the timezone inference, in the order in
\* which they are tested
InOffsetRange(k, timezoneOffset) ==
    CASE k = 1 -> timezoneOffset <= -480 /\ timezoneOffset > -600
      [] k = 2 -> timezoneOffset <= -540
      [] k = 3 -> timezoneOffset <= -420 /\ timezoneOffset > -480
      [] k = 4 -> timezoneOffset <= 0 /\ timezoneOffset > -60
      [] k = 5 -> timezoneOffset <= 60 /\ timezoneOffset > 0
      [] OTHER -> timezoneOffset <= 300 /\ timezoneOffset > 240

\* the timezone each branch assigns
RangeZone(k) ==
    CASE k = 1 -> "Asia/Shanghai"
      [] k = 2 -> "Asia/Seoul"
      [] k = 3 -> "Asia/Bangkok"
      [] k = 4 -> "Europe/London"
      [] k = 5 -> "Europe/Berlin"
      [] OTHER -> "America/New_York"

getHostMachineConfig(userLocale, hostSignals) ==
    [deviceName |-> "Desktop Chrome",
     locale |-> IF userLocale # "" THEN userLocale
                ELSE IF hostSignals.lang # "" THEN hostSignals.lang ELSE "ko-KR",
     timezoneId |-> TimezoneOf(hostSignals.timezoneOffset),
     colorScheme |-> ColorSchemeOf(hostSignals.hour),
     reducedMotion |-> NoPreference,
     forcedColors |-> "none"]

deviceList == {"Desktop Chrome", "Desktop Edge", "Desktop Firefox", "Desktop Safari"}

googleDomains == {"https://www.google.com", "https://www.google.co.uk",
                  "https://www.google.ca", "https://www.google.com.au"}

\* the host signals a run may observe
HostSignals == {[lang |-> "en_US.UTF-8", timezoneOffset |-> -540, hour |-> 2],
                [lang |-> "", timezoneOffset |-> 300, hour |-> 14]}

\* SavedState: json is the kind of JavaScript value the variable holds ("object",
\* or "null" / "number" when JSON.parse returned such a value)
EmptySavedState == [json |-> "object", fingerprint |-> Null, googleDomain |-> Null]

\* JSON.parse("null") and JSON.parse("5")
NullSavedState == [json |-> "null", fingerprint |-> Null, googleDomain |-> Null]
NumberSavedState == [json |-> "number", fingerprint |-> Null, googleDomain |-> Null]

\* an identity file a previous run has written
StoredSavedState ==
    [json |-> "object",
     fingerprint |-> Some(getHostMachineConfig("en-US",
                        [lang |-> "", timezoneOffset |-> 0, hour |-> 20])),
     googleDomain |-> Some("https://www.google.ca")]

\* an identity file whose deviceName is no key of the devices registry
UnknownDeviceSavedState ==
    [StoredSavedState EXCEPT
        !.fingerprint = Some([StoredSavedState.fingerprint[1] EXCEPT !.deviceName = "Desktop"])]

\* --------------------------------------------------------- challenge pages

sorryPatterns ==
    {<<"g", "o", "o", "g", "l", "e", ".", "c", "o", "m", "/", "s", "o", "r", "r", "y", "/", "i", "n", "d", "e", "x">>,
     <<"g", "o", "o", "g", "l", "e", ".", "c", "o", "m", "/", "s", "o", "r", "r", "y">>,
     <<"r", "e", "c", "a", "p", "t", "c", "h", "a">>,
     <<"c", "a", "p", "t", "c", "h", "a">>,
     <<"u", "n", "u", "s", "u", "a", "l", " ", "t", "r", "a", "f", "f", "i", "c">>}

\* sorryPatterns.some(pattern => url.includes(pattern))
IsBlockedUrl(url) == \E pattern \in sorryPatterns : Includes(url, pattern)

\* the test of the first checkpoint: the page URL or the response URL
isBlockedPage(currentUrl, response) ==
    \/ IsBlockedUrl(currentUrl)
    \/ response # Null /\ IsBlockedUrl(response[1])

\* NavigatedAway accepting any navigation
NavigatedAnywhere(url) == TRUE

\* the url predicate given to page.waitForNavigation
NavigatedAway(url) == \A pattern \in sorryPatterns : ~Includes(url, pattern)

UrlBlank == <<"a", "b", "o", "u", "t", ":", "b", "l", "a", "n", "k">>
UrlSearch == HttpsScheme \o <<"w", "w", "w", ".">> \o GoogleComSlash \o <<"s", "e", "a", "r", "c", "h">>
UrlSorry == HttpsScheme \o <<"w", "w", "w", ".">> \o GoogleComSlash \o <<"s", "o", "r", "r", "y", "/", "i", "n", "d", "e", "x">>
UrlCaptcha == HttpsScheme \o <<"x", ".", "i", "o", "/", "r", "e", "c", "a", "p", "t", "c", "h", "a">>

\* the URLs a navigation may land on
Urls == {UrlSearch, UrlSorry, UrlCaptcha}


\* ------------------------------------------------------------------ state

VARIABLES
    call,            \* the call: caller, operation, options, existingBrowser
    pc,              \* the await the run is suspended at
    headless,        \* the argument of the running performSearch
    ckpt,            \* the checkpoint (1..3) that detected the challenge
    attempts,        \* the headless argument of every performSearch call so far
    browsers,        \* every browser instance: kind, headless, open, closeCalls
    browser,         \* performSearch's browser (index into browsers, 0: none)
    newBrowser,      \* the temporary browser of an escalation (index, 0: none)
    contexts,        \* every browser context: browser, open, options, storageState
    context,         \* performSearch's context (index into contexts, 0: none)
    page,            \* performSearch's page: open, url, submitted
    storageState,    \* whether stateFile existed when the call began
    savedState,      \* the in-memory SavedState
    selectedDomain,  \* the domain of the last page.goto ("" before)
    files,           \* the session file and the identity file
    saves,           \* the attempts to save the state, in order
    results,         \* the list page.evaluate returned
    error,           \* the error the catch block caught (Null: none)
    outcome,         \* how the promise of the call settled
    host,            \* the caller's process: exit code, tool payload
    faults,          \* the browser primitives that failed in this run
    detections,      \* the challenge detections: checkpoint and mode
    doc,             \* extraction alone: the document
    maxResults2,     \* extraction alone: twice maxResults
    extracted,       \* extraction alone: the returned list (Null before)
    gathered,        \* extraction alone: the results array after the primary pass
                     \* and before the slice (Null before)
    hostNow,         \* identity generation alone: LANG, UTC offset and local hour
    hostConfig,      \* identity generation alone: the generated identity (Null before)
    pathArg,         \* path derivation alone: the path handed in (stateFile, outputPath)
    derivedFile,     \* path derivation alone: the identity file path (Null before)
    savedOutput,     \* path derivation alone: what the saveToFile block left (Null before)
    handlers,        \* concurrent calls alone: the position of each call
    shared           \* concurrent calls alone: which call wrote each of the two files

ctl == <<pc, headless, ckpt, attempts>>
bvars == <<browsers, browser, newBrowser, contexts, context, page>>
svars == <<storageState, savedState, selectedDomain, files, saves>>
rvars == <<results, error, outcome, host>>
gvars == <<faults, detections>>
pvars == <<pathArg, derivedFile, savedOutput>>
cvars == <<handlers, shared>>
xvars == <<doc, maxResults2, extracted, gathered, hostNow, hostConfig, pvars, cvars>>
vars == <<call, ctl, bvars, svars, rvars, gvars, xvars>>

DefaultLimit == 10

\* "./browser-state.json", and a path without ".json"
DefaultStateFile == <<".", "/", "b", "r", "o", "w", "s", "e", "r", "-", "s", "t", "a", "t", "e", ".", "j", "s", "o", "n">>
PlainStateFile == <<".", "/", "s", "t", "a", "t", "e">>

DotJson == <<".", "j", "s", "o", "n">>
FingerprintSuffix == <<"-", "f", "i", "n", "g", "e", "r", "p", "r", "i", "n", "t", ".", "j", "s", "o", "n">>

\* stateFile.replace(".json", "-fingerprint.json")
fingerprintFile(stateFile) == Replace(stateFile, DotJson, FingerprintSuffix)

\* googleSearch(query, options, existingBrowser) called directly
ApiSearch(existing, noSave) ==
    [caller |-> "api", op |-> "search", query |-> "q", existingBrowser |-> existing,
     stateFile |-> DefaultStateFile, headless |-> TRUE,
     noSaveState |-> noSave, locale |-> "ko-KR", limit2 |-> 2 * DefaultLimit,
     flagNoSaveState |-> FALSE]

\* getGoogleSearchPageHtml(query, options) called directly
ApiHtml(noSave) ==
    [caller |-> "api", op |-> "html", query |-> "q", existingBrowser |-> FALSE,
     stateFile |-> DefaultStateFile, headless |-> TRUE,
     noSaveState |-> noSave, locale |-> "ko-KR", limit2 |-> 2 * DefaultLimit,
     flagNoSaveState |-> FALSE]

\* the command line: commander stores --no-save-state as saveState = false
\* and --no-headless as headless = false, and the options object is passed on
\* as it is
CliCall(getHtml, flag, noHeadless) ==
    [caller |-> "cli", op |-> IF getHtml THEN "html" ELSE "search", query |-> "q",
     stateFile |-> DefaultStateFile, headless |-> ~noHeadless,
     existingBrowser |-> FALSE, noSaveState |-> FALSE, locale |-> "ko-KR",
     limit2 |-> 2 * DefaultLimit, flagNoSaveState |-> flag]

\* the google-search tool: limit, timeout and stateFile only, globalBrowser
McpCall ==
    [caller |-> "mcp", op |-> "search", query |-> "q", existingBrowser |-> TRUE,
     stateFile |-> DefaultStateFile, headless |-> TRUE,
     noSaveState |-> FALSE, locale |-> "ko-KR", limit2 |-> 2 * DefaultLimit,
     flagNoSaveState |-> FALSE]

Calls ==
    {ApiSearch(e, n) : e \in BOOLEAN, n \in BOOLEAN}
    \cup {ApiHtml(n) : n \in BOOLEAN}
    \cup {CliCall(g, f, h) : g \in BOOLEAN, f \in BOOLEAN, h \in BOOLEAN}
    \cup {McpCall}
    \cup {[ApiSearch(FALSE, FALSE) EXCEPT !.headless = FALSE],
          [ApiHtml(FALSE) EXCEPT !.headless = FALSE],
          [ApiSearch(FALSE, FALSE) EXCEPT !.stateFile = PlainStateFile]}

\* the identity file: absent, text that JSON.parse rejects, or the text of a
\* JSON value
AbsentFile == [kind |-> "absent", value |-> EmptySavedState]
CorruptFile == [kind |-> "corrupt", value |-> EmptySavedState]
ObjectFile(v) == [kind |-> "json", value |-> v]

\* fs.readFileSync and JSON.parse of the identity file; a throw leaves {}
ParseFingerprintFile(file) ==
    IF file.kind = "json" THEN file.value ELSE EmptySavedState

\* the session file holding the text of the identity object, as it does when
\* both paths name one file and the identity was written last
SharedFile ==
    [dir |-> TRUE, session |-> "identity", fingerprint |-> ObjectFile(StoredSavedState)]

\* what the storage may hold when a call begins: dir is whether the parent
\* directory of stateFile exists, session the session file, fingerprint the
\* identity file
InitialFiles ==
    {[dir |-> FALSE, session |-> "absent", fingerprint |-> AbsentFile],
     [dir |-> TRUE, session |-> "absent", fingerprint |-> AbsentFile],
     [dir |-> TRUE, session |-> "absent", fingerprint |-> ObjectFile(StoredSavedState)],
     [dir |-> TRUE, session |-> "blob0", fingerprint |-> AbsentFile],
     [dir |-> TRUE, session |-> "blob0", fingerprint |-> CorruptFile],
     [dir |-> TRUE, session |-> "blob0", fingerprint |-> ObjectFile(NullSavedState)],
     [dir |-> TRUE, session |-> "blob0", fingerprint |-> ObjectFile(NumberSavedState)],
     [dir |-> TRUE, session |-> "blob0", fingerprint |-> ObjectFile(StoredSavedState)],
     [dir |-> TRUE, session |-> "blob0", fingerprint |-> ObjectFile(UnknownDeviceSavedState)],
     [dir |-> TRUE, session |-> "corrupt", fingerprint |-> ObjectFile(StoredSavedState)]}

ExternalBrowser == [kind |-> "external", headless |-> TRUE, open |-> TRUE, closeCalls |-> 0]

NoPage == [open |-> FALSE, url |-> UrlBlank, submitted |-> FALSE]
NoOutcome == [kind |-> "none", query |-> "", response |-> Null]
NoHost == [exitCode |-> -1, payload |-> "none"]
EmptyDoc == [containers |-> <<>>, anchors |-> <<>>]
NoSignals == [lang |-> "", timezoneOffset |-> 0, hour |-> 0]
NoWrites == [session |-> 0, identity |-> 0]

\* the documents a results page may hold in a run of the pipeline
DocTwo ==
    [containers |->
        <<[id |-> <<"container", 1>>, matches |-> {1}, titleEl |-> TRUE, titleText |-> TextA,
           linkInTitle |-> Null, ancestorLink |-> Some(LinkA), containerLink |-> Some(LinkA),
           snippetEl |-> Some(TextS), altSnippetEl |-> Null, textDiv |-> Null]>>,
     anchors |-> <<[id |-> <<"anchor", 1>>, href |-> LinkB, text |-> TextB, parents |-> <<TextB>>]>>]

RunDocs == {EmptyDoc, DocTwo}

RunInit ==
    /\ call \in Calls
    /\ pc = "begin"
    /\ headless = TRUE
    /\ ckpt = 0
    /\ attempts = <<>>
    /\ browsers = IF call.existingBrowser THEN <<ExternalBrowser>> ELSE <<>>
    /\ browser = 0
    /\ newBrowser = 0
    /\ contexts = <<>>
    /\ context = 0
    /\ page = NoPage
    /\ storageState = FALSE
    /\ savedState = EmptySavedState
    /\ selectedDomain = ""
    /\ \/ /\ files \in InitialFiles
          /\ fingerprintFile(call.stateFile) = call.stateFile => files.fingerprint = AbsentFile
       \/ /\ files = SharedFile
          /\ fingerprintFile(call.stateFile) = call.stateFile
    /\ saves = <<>>
    /\ results = <<>>
    /\ error = Null
    /\ outcome = NoOutcome
    /\ host = NoHost
    /\ faults = {}
    /\ detections = <<>>

Init ==
    /\ RunInit
    /\ doc = EmptyDoc
    /\ maxResults2 = 0
    /\ extracted = Null
    /\ gathered = Null
    /\ hostNow = NoSignals
    /\ hostConfig = Null
    /\ pathArg = <<>>
    /\ derivedFile = Null
    /\ savedOutput = Null
    /\ handlers = <<>>
    /\ shared = NoWrites


\* ------------------------------------------------------- pipeline helpers

\* the identity path is the session path: stateFile holds no ".json"
SamePath == fingerprintFile(call.stateFile) = call.stateFile

\* the identity file as the run finds it; when both paths name one file it is
\* the session file, whose blob parses to an object without fingerprint and
\* googleDomain
FingerprintFileFound ==
    IF ~SamePath THEN files.fingerprint
    ELSE CASE files.session = "absent" -> AbsentFile
           [] files.session = "corrupt" -> CorruptFile
           [] files.session = "identity" -> files.fingerprint
           [] OTHER -> ObjectFile(EmptySavedState)

\* useHeadless taken from the option
useHeadlessOption == call.headless

\* let useHeadless = true: the headless option is ignored
useHeadless == TRUE

\* browserWasProvided never set
browserWasProvidedNever == FALSE

browserWasProvided == call.existingBrowser

\* browser.close(): the instance and every context of it are closed
CloseIn(bs, b) ==
    [bs EXCEPT ![b] = [@ EXCEPT !.open = FALSE, !.closeCalls = @ + 1]]

ContextsClosedWith(cs, b) ==
    [i \in 1..Len(cs) |-> IF cs[i].browser = b THEN [cs[i] EXCEPT !.open = FALSE] ELSE cs[i]]

\* the browser performSearch works in: the supplied one if there is one
UsesExisting == call.op = "search" /\ call.existingBrowser

\* getDeviceConfig's choices
DeviceChoices ==
    IF savedState.fingerprint # Null /\ savedState.fingerprint[1].deviceName \in deviceList
    THEN {savedState.fingerprint[1].deviceName}
    ELSE deviceList

\* the identity part of contextOptions
ContextOptions(fingerprint, randomDevice, generated) ==
    [deviceName |-> IF generated THEN fingerprint.deviceName ELSE randomDevice,
     locale |-> fingerprint.locale,
     timezoneId |-> fingerprint.timezoneId,
     colorScheme |-> fingerprint.colorScheme,
     reducedMotion |-> fingerprint.reducedMotion,
     forcedColors |-> fingerprint.forcedColors]

\* the restart in the mode of the first attempt
EscalatedModeAutomated == TRUE

\* the mode of the attempt an escalation starts
EscalatedMode == FALSE

\* a throw inside the try block: control goes to the catch block
Throw(msg, failed) ==
    /\ pc' = "catchSave"
    /\ error' = Some(msg)
    /\ faults' = faults \cup failed

\* a throw outside the try block, or in the catch block: the promise rejects
Reject(msg, failed) ==
    /\ pc' = "settled"
    /\ outcome' = [kind |-> "raised", query |-> "", response |-> Some(msg)]
    /\ faults' = faults \cup failed

\* AfterCheckpoint without the branch on headless: a challenge is always waited out
AfterCheckpointWaits(k, blocked, next) ==
    IF blocked
    THEN /\ pc' = "waitForNavigation"
         /\ ckpt' = k
         /\ detections' = Append(detections, [ckpt |-> k, headless |-> headless])
    ELSE /\ pc' = next
         /\ UNCHANGED <<ckpt, detections>>

\* where a checkpoint sends the run
AfterCheckpoint(k, blocked, next) ==
    IF blocked /\ headless
    THEN /\ pc' = "closePage"
         /\ ckpt' = k
         /\ detections' = Append(detections, [ckpt |-> k, headless |-> headless])
    ELSE IF blocked
    THEN /\ pc' = "waitForNavigation"
         /\ ckpt' = k
         /\ detections' = Append(detections, [ckpt |-> k, headless |-> headless])
    ELSE /\ pc' = next
         /\ UNCHANGED <<ckpt, detections>>

\* performSearch(false) / performSearchAndGetHtml(false), returned unawaited
Restart ==
    /\ pc' = "launch"
    /\ headless' = EscalatedMode
    /\ attempts' = Append(attempts, EscalatedMode)

\* ---------------------------------------------------------------- actions

\* the body of googleSearch / getGoogleSearchPageHtml before performSearch
Begin ==
    /\ pc = "begin"
    /\ storageState' = (files.session # "absent")
    /\ savedState' = IF files.session # "absent" /\ FingerprintFileFound.kind # "absent"
                     THEN ParseFingerprintFile(FingerprintFileFound)
                     ELSE EmptySavedState
    /\ headless' = useHeadless
    /\ attempts' = <<useHeadless>>
    /\ pc' = "launch"
    /\ UNCHANGED <<call, ckpt, bvars, selectedDomain, files, saves, rvars, gvars, xvars>>

\* performSearch's browser: the existing one, or chromium.launch
Launch ==
    /\ pc = "launch"
    /\ IF UsesExisting
       THEN /\ browser' = 1
            /\ pc' = "newContext"
            /\ UNCHANGED <<browsers, outcome, faults>>
       ELSE \E ok \in BOOLEAN :
              IF ok
              THEN /\ browsers' = Append(browsers, [kind |-> "launched", headless |-> headless,
                                                    open |-> TRUE, closeCalls |-> 0])
                   /\ browser' = Len(browsers) + 1
                   /\ pc' = "newContext"
                   /\ UNCHANGED <<outcome, faults>>
              ELSE /\ Reject("launch", {"launch"})
                   /\ UNCHANGED <<browsers, browser>>
    /\ UNCHANGED <<call, headless, ckpt, attempts, newBrowser, contexts, context, page,
                   svars, results, error, host, detections, xvars>>

\* resolving the identity throws a TypeError when savedState is not an object:
\* savedState.fingerprint of null in getDeviceConfig, and the assignment
\* savedState.fingerprint = hostConfig to a number (module code is strict)
IdentityThrows == savedState.json # "object"

\* browser.newContext reads and parses the file that storageState names
StorageStateReadable == ~(storageState /\ files.session = "corrupt")

\* the identity is resolved, then browser.newContext
NewContext ==
    /\ pc = "newContext"
    /\ IF IdentityThrows
       THEN /\ Reject("TypeError", {})
            /\ UNCHANGED <<savedState, contexts, context>>
       ELSE \E randomDevice \in DeviceChoices, signals \in HostSignals, ok \in BOOLEAN :
              LET generated == savedState.fingerprint = Null
                  fingerprint == IF generated
                                 THEN getHostMachineConfig(call.locale, signals)
                                 ELSE savedState.fingerprint[1]
              IN  /\ savedState' = [savedState EXCEPT !.fingerprint = Some(fingerprint)]
                  /\ IF ~StorageStateReadable
                     THEN /\ Reject("storageState", {})
                          /\ UNCHANGED <<contexts, context>>
                     ELSE IF ok
                     THEN /\ contexts' = Append(contexts,
                                           [browser |-> browser, open |-> TRUE,
                                            options |-> ContextOptions(fingerprint, randomDevice, generated),
                                            storageState |-> IF storageState THEN files.session ELSE "none"])
                          /\ context' = Len(contexts) + 1
                          /\ pc' = "newPage"
                          /\ UNCHANGED <<outcome, faults>>
                     ELSE /\ Reject("newContext", {"newContext"})
                          /\ UNCHANGED <<contexts, context>>
    /\ UNCHANGED <<call, headless, ckpt, attempts, browsers, browser, newBrowser, page,
                   storageState, selectedDomain, files, saves, results, error, host,
                   detections, xvars>>

\* context.addInitScript, context.newPage, page.addInitScript
NewPage ==
    /\ pc = "newPage"
    /\ \E ok \in BOOLEAN :
         IF ok
         THEN /\ page' = [open |-> TRUE, url |-> UrlBlank, submitted |-> FALSE]
              /\ pc' = "goto"
              /\ UNCHANGED <<outcome, faults>>
         ELSE /\ Reject("newPage", {"newPage"})
              /\ UNCHANGED page
    /\ UNCHANGED <<call, headless, ckpt, attempts, browsers, browser, newBrowser, contexts,
                   context, svars, results, error, host, detections, xvars>>

\* the domain is selected, page.goto, and the first checkpoint
Goto ==
    /\ pc = "goto"
    /\ \E domain \in (IF savedState.googleDomain # Null
                      THEN {savedState.googleDomain[1]} ELSE googleDomains),
          ok \in BOOLEAN :
         /\ savedState' = [savedState EXCEPT !.googleDomain = Some(domain)]
         /\ selectedDomain' = domain
         /\ IF ok
            THEN \E url \in Urls, response \in {Null, Some(UrlSearch), Some(UrlSorry)} :
                   /\ page' = [page EXCEPT !.url = url]
                   /\ AfterCheckpoint(1, isBlockedPage(url, response), "findInput")
                   /\ UNCHANGED <<error, faults>>
            ELSE /\ Throw("goto", {"goto"})
                 /\ UNCHANGED <<page, ckpt, detections>>
    /\ UNCHANGED <<call, headless, attempts, browsers, browser, newBrowser, contexts, context,
                   storageState, files, saves, results, outcome, host, xvars>>


\* escalation: page.close()
ClosePage ==
    /\ pc = "closePage"
    /\ \E ok \in BOOLEAN :
         IF ok
         THEN /\ page' = [page EXCEPT !.open = FALSE]
              /\ pc' = "closeContext"
              /\ UNCHANGED <<error, faults>>
         ELSE /\ Throw("page.close", {"page.close"})
              /\ UNCHANGED page
    /\ UNCHANGED <<call, headless, ckpt, attempts, browsers, browser, newBrowser, contexts,
                   context, svars, results, outcome, host, detections, xvars>>

\* escalation: context.close()
CloseContext ==
    /\ pc = "closeContext"
    /\ \E ok \in BOOLEAN :
         IF ok
         THEN /\ contexts' = [contexts EXCEPT ![context].open = FALSE]
              /\ pc' = IF call.op = "search" /\ browserWasProvided
                       THEN "launchTemp" ELSE "closeBrowser"
              /\ UNCHANGED <<error, faults>>
         ELSE /\ Throw("context.close", {"context.close"})
              /\ UNCHANGED contexts
    /\ UNCHANGED <<call, headless, ckpt, attempts, browsers, browser, newBrowser, context,
                   page, svars, results, outcome, host, detections, xvars>>

\* escalation with a supplied browser: chromium.launch({headless: false})
LaunchTemp ==
    /\ pc = "launchTemp"
    /\ \E ok \in BOOLEAN :
         IF ok
         THEN /\ browsers' = Append(browsers, [kind |-> "temp", headless |-> FALSE,
                                               open |-> TRUE, closeCalls |-> 0])
              /\ newBrowser' = Len(browsers) + 1
              /\ pc' = "tempContext"
              /\ UNCHANGED <<error, faults>>
         ELSE /\ Throw("launch", {"launch"})
              /\ UNCHANGED <<browsers, newBrowser>>
    /\ UNCHANGED <<call, headless, ckpt, attempts, browser, contexts, context, page, svars,
                   results, outcome, host, detections, xvars>>

\* escalation with a supplied browser: newBrowser.newContext and newPage;
\* on a failure the inner catch closes newBrowser and throws again
TempContext ==
    /\ pc = "tempContext"
    /\ \E ok \in BOOLEAN :
         IF ok
         THEN /\ contexts' = Append(contexts,
                               [browser |-> newBrowser, open |-> TRUE,
                                options |-> contexts[context].options, storageState |-> "none"])
              /\ pc' = "closeTemp"
              /\ UNCHANGED <<browsers, error, faults>>
         ELSE /\ browsers' = CloseIn(browsers, newBrowser)
              /\ Throw("newContext", {"newContext"})
              /\ UNCHANGED contexts
    /\ UNCHANGED <<call, headless, ckpt, attempts, browser, newBrowser, context, page, svars,
                   results, outcome, host, detections, xvars>>

\* escalation with a supplied browser: newBrowser.close(), then the restart;
\* on a failure the inner catch closes newBrowser again and throws
CloseTemp ==
    /\ pc = "closeTemp"
    /\ contexts' = ContextsClosedWith(contexts, newBrowser)
    /\ \E ok \in BOOLEAN :
         IF ok
         THEN /\ browsers' = CloseIn(browsers, newBrowser)
              /\ Restart
              /\ UNCHANGED <<error, faults>>
         ELSE /\ browsers' = CloseIn(CloseIn(browsers, newBrowser), newBrowser)
              /\ Throw("browser.close", {"browser.close"})
              /\ UNCHANGED <<headless, attempts>>
    /\ UNCHANGED <<call, ckpt, browser, newBrowser, context, page, svars, results, outcome,
                   host, detections, xvars>>

\* escalation with an own browser: browser.close(), then the restart
CloseBrowser ==
    /\ pc = "closeBrowser"
    /\ \E ok \in BOOLEAN :
         IF ok
         THEN /\ browsers' = CloseIn(browsers, browser)
              /\ contexts' = ContextsClosedWith(contexts, browser)
              /\ Restart
              /\ UNCHANGED <<error, faults>>
         ELSE /\ Throw("browser.close", {"browser.close"})
              /\ UNCHANGED <<browsers, contexts, headless, attempts>>
    /\ UNCHANGED <<call, ckpt, browser, newBrowser, context, page, svars, results, outcome,
                   host, detections, xvars>>

\* assisted mode: page.waitForNavigation until no marker is in the URL
WaitForNavigation ==
    /\ pc = "waitForNavigation"
    /\ \E ok \in BOOLEAN :
         IF ok
         THEN \E url \in {u \in Urls : NavigatedAway(u)} :
                /\ page' = [page EXCEPT !.url = url]
                /\ pc' = CASE ckpt = 1 -> "findInput"
                           [] ckpt = 2 -> "waitForLoadState"
                           [] OTHER -> "retrySelector"
                /\ UNCHANGED <<error, faults>>
         ELSE /\ Throw("waitForNavigation", {"waitForNavigation"})
              /\ UNCHANGED page
    /\ UNCHANGED <<call, headless, ckpt, attempts, browsers, browser, newBrowser, contexts,
                   context, svars, results, outcome, host, detections, xvars>>

\* assisted mode, second checkpoint: page.waitForLoadState after the wait
WaitForLoadState ==
    /\ pc = "waitForLoadState"
    /\ \E ok \in BOOLEAN :
         IF ok
         THEN /\ pc' = IF call.op = "search" THEN "waitForSelector" ELSE "content"
              /\ UNCHANGED <<error, faults>>
         ELSE Throw("waitForLoadState", {"waitForLoadState"})
    /\ UNCHANGED <<call, headless, ckpt, attempts, bvars, svars, results, outcome, host,
                   detections, xvars>>

\* InputNotFound with the error only recorded: the run goes on to type
InputNotFoundLogged ==
    /\ pc' = "submit"
    /\ error' = Some("searchInput")
    /\ UNCHANGED faults

\* if (!searchInput) throw
InputNotFound == Throw("searchInput", {})

\* the query input is looked up among the candidate selectors
FindInput ==
    /\ pc = "findInput"
    /\ \E searchInput \in BOOLEAN :
         IF searchInput
         THEN /\ pc' = "submit"
              /\ UNCHANGED <<error, faults>>
         ELSE InputNotFound
    /\ UNCHANGED <<call, headless, ckpt, attempts, bvars, svars, results, outcome, host,
                   detections, xvars>>

\* click, type, Enter, page.waitForLoadState, and the second checkpoint
Submit ==
    /\ pc = "submit"
    /\ \E ok \in BOOLEAN :
         IF ok
         THEN \E url \in Urls :
                /\ page' = [page EXCEPT !.url = url, !.submitted = TRUE]
                /\ AfterCheckpoint(2, IsBlockedUrl(url),
                                   IF call.op = "search" THEN "waitForSelector" ELSE "content")
                /\ UNCHANGED <<error, faults>>
         ELSE /\ Throw("submit", {"submit"})
              /\ UNCHANGED <<page, ckpt, detections>>
    /\ UNCHANGED <<call, headless, attempts, browsers, browser, newBrowser, contexts, context,
                   svars, results, outcome, host, xvars>>

\* page.waitForSelector over the result selectors, and the third checkpoint
WaitForSelector ==
    /\ pc = "waitForSelector"
    /\ \E resultsFound \in BOOLEAN, url \in Urls :
         /\ page' = [page EXCEPT !.url = url]
         /\ IF resultsFound
            THEN /\ pc' = "evaluate"
                 /\ UNCHANGED <<ckpt, detections, error, faults>>
            ELSE IF IsBlockedUrl(url)
            THEN /\ AfterCheckpoint(3, TRUE, "evaluate")
                 /\ UNCHANGED <<error, faults>>
            ELSE /\ Throw("searchResults", {})
                 /\ UNCHANGED <<ckpt, detections>>
    /\ UNCHANGED <<call, headless, attempts, browsers, browser, newBrowser, contexts, context,
                   svars, results, outcome, host, xvars>>

\* assisted mode, third checkpoint: the result selectors are tried again
RetrySelector ==
    /\ pc = "retrySelector"
    /\ \E resultsFound \in BOOLEAN :
         IF resultsFound
         THEN /\ pc' = "evaluate"
              /\ UNCHANGED <<error, faults>>
         ELSE Throw("searchResults", {})
    /\ UNCHANGED <<call, headless, ckpt, attempts, bvars, svars, results, outcome, host,
                   detections, xvars>>


ErrorTitle == <<"s", "e", "a", "r", "c", "h", " ", "f", "a", "i", "l", "e", "d">>

\* the record the catch block of performSearch returns
ErrorRecord(msg) ==
    [title |-> ErrorTitle, link |-> EmptyLink, snippet |-> <<msg>>, src |-> <<"error", 0>>]

\* the response of a failed googleSearch
ErrorResponse(msg) == <<ErrorRecord(msg)>>

\* page.waitForTimeout and page.evaluate(extraction closure, limit)
Evaluate ==
    /\ pc = "evaluate"
    /\ \E ok \in BOOLEAN :
         IF ok
         THEN \E d \in RunDocs :
                /\ results' = EvaluateExtraction(d, call.limit2)
                /\ pc' = "saveState"
                /\ UNCHANGED <<error, faults>>
         ELSE /\ Throw("evaluate", {"evaluate"})
              /\ UNCHANGED results
    /\ UNCHANGED <<call, headless, ckpt, attempts, bvars, svars, outcome, host, detections,
                   xvars>>

\* getGoogleSearchPageHtml: the waits, page.content() and the clean-up of it
Content ==
    /\ pc = "content"
    /\ \E ok \in BOOLEAN :
         IF ok
         THEN /\ pc' = "saveState"
              /\ UNCHANGED <<error, faults>>
         ELSE Throw("content", {"content"})
    /\ UNCHANGED <<call, headless, ckpt, attempts, bvars, svars, results, outcome, host,
                   detections, xvars>>

\* WrittenFiles with the identity file written before the session file
WrittenFilesIdentityFirst(dirOk, sessionOk, fingerprintOk) ==
    IF ~files.dir /\ ~dirOk THEN files
    ELSE IF ~fingerprintOk THEN [files EXCEPT !.dir = TRUE]
    ELSE IF ~sessionOk \/ ~contexts[context].open
    THEN [dir |-> TRUE, session |-> IF SamePath THEN "identity" ELSE files.session,
          fingerprint |-> ObjectFile(savedState)]
    ELSE [dir |-> TRUE, session |-> "blob1", fingerprint |-> ObjectFile(savedState)]

\* the files a save block leaves, once the option is known to allow it:
\* fs.mkdirSync of the parent directory if it is missing, then
\* context.storageState({path: stateFile}), then fs.writeFileSync of the
\* identity file; the first failure ends the block
WrittenFiles(dirOk, sessionOk, fingerprintOk) ==
    IF ~files.dir /\ ~dirOk THEN files
    ELSE IF ~sessionOk \/ ~contexts[context].open THEN [files EXCEPT !.dir = TRUE]
    ELSE IF ~fingerprintOk
    THEN [dir |-> TRUE, session |-> "blob1", fingerprint |-> files.fingerprint]
    ELSE [dir |-> TRUE, session |-> IF SamePath THEN "identity" ELSE "blob1",
          fingerprint |-> ObjectFile(savedState)]

\* SavedFiles without the test of noSaveState
SavedFilesAlways(dirOk, sessionOk, fingerprintOk) ==
    WrittenFiles(dirOk, sessionOk, fingerprintOk)

\* the files after a save block: if (!noSaveState) { ... }
SavedFiles(dirOk, sessionOk, fingerprintOk) ==
    IF call.noSaveState THEN files ELSE WrittenFiles(dirOk, sessionOk, fingerprintOk)

\* the call of a save block that failed, if one did
SaveFaults(dirOk, sessionOk, fingerprintOk) ==
    IF call.noSaveState THEN {}
    ELSE IF ~files.dir /\ ~dirOk THEN {"mkdir"}
    ELSE IF ~sessionOk \/ ~contexts[context].open THEN {"storageState"}
    ELSE IF ~fingerprintOk THEN {"writeFile"}
    ELSE {}

\* the record of one save block: none when noSaveState is set
SaveAttempts(block, failed) ==
    IF call.noSaveState THEN saves
    ELSE Append(saves, [block |-> block, failed |-> failed])

\* SaveCaught with the failure of the save left uncaught
SaveCaughtNot(failed) ==
    IF failed = {}
    THEN /\ pc' = "close"
         /\ UNCHANGED <<error, faults>>
    ELSE Throw("save", failed)

\* the catch clauses of the save block of the success path: the failure is
\* logged and the run goes on to close the browser
SaveCaught(failed) ==
    /\ pc' = "close"
    /\ faults' = faults \cup failed
    /\ UNCHANGED error

\* the save step of the success path
SaveState ==
    /\ pc = "saveState"
    /\ \E dirOk \in BOOLEAN, sessionOk \in BOOLEAN, fingerprintOk \in BOOLEAN :
         LET failed == SaveFaults(dirOk, sessionOk, fingerprintOk)
         IN  /\ files' = SavedFiles(dirOk, sessionOk, fingerprintOk)
             /\ saves' = SaveAttempts("try", failed)
             /\ SaveCaught(failed)
    /\ UNCHANGED <<call, headless, ckpt, attempts, bvars, storageState, savedState,
                   selectedDomain, results, outcome, host, detections, xvars>>

\* the success path: browser.close() unless it was supplied, then the return
CloseAndReturn ==
    /\ pc = "close"
    /\ IF browserWasProvided
       THEN /\ outcome' = [kind |-> "returned", query |-> call.query, response |-> Some(results)]
            /\ pc' = "settled"
            /\ UNCHANGED <<browsers, contexts, error, faults>>
       ELSE \E ok \in BOOLEAN :
              IF ok
              THEN /\ browsers' = CloseIn(browsers, browser)
                   /\ contexts' = ContextsClosedWith(contexts, browser)
                   /\ outcome' = [kind |-> "returned", query |-> call.query, response |-> Some(results)]
                   /\ pc' = "settled"
                   /\ UNCHANGED <<error, faults>>
              ELSE /\ Throw("browser.close", {"browser.close"})
                   /\ UNCHANGED <<browsers, contexts, outcome>>
    /\ UNCHANGED <<call, headless, ckpt, attempts, browser, newBrowser, context, page, svars,
                   results, host, detections, xvars>>

\* the catch block: the save is tried again
CatchSave ==
    /\ pc = "catchSave"
    /\ \E dirOk \in BOOLEAN, sessionOk \in BOOLEAN, fingerprintOk \in BOOLEAN :
         LET failed == SaveFaults(dirOk, sessionOk, fingerprintOk)
         IN  /\ files' = SavedFiles(dirOk, sessionOk, fingerprintOk)
             /\ saves' = SaveAttempts("catch", failed)
             /\ faults' = faults \cup failed
    /\ pc' = "catchClose"
    /\ UNCHANGED <<call, headless, ckpt, attempts, bvars, storageState, savedState,
                   selectedDomain, rvars, detections, xvars>>

\* how the catch block ends: googleSearch returns the error record,
\* getGoogleSearchPageHtml throws
CatchOutcome(msg) ==
    IF call.op = "search"
    THEN [kind |-> "returned", query |-> call.query, response |-> Some(ErrorResponse(msg))]
    ELSE [kind |-> "raised", query |-> "", response |-> Some(msg)]

\* the catch block: browser.close() unless it was supplied, then the end
CatchClose ==
    /\ pc = "catchClose"
    /\ IF browserWasProvided
       THEN /\ outcome' = CatchOutcome(error[1])
            /\ pc' = "settled"
            /\ UNCHANGED <<browsers, contexts, faults>>
       ELSE \E ok \in BOOLEAN :
              IF ok
              THEN /\ browsers' = CloseIn(browsers, browser)
                   /\ contexts' = ContextsClosedWith(contexts, browser)
                   /\ outcome' = CatchOutcome(error[1])
                   /\ pc' = "settled"
                   /\ UNCHANGED faults
              ELSE /\ Reject("browser.close", {"browser.close"})
                   /\ UNCHANGED <<browsers, contexts>>
    /\ UNCHANGED <<call, headless, ckpt, attempts, browser, newBrowser, context, page, svars,
                   results, error, host, detections, xvars>>

\* the command line's action: the result is printed, or the error is
\* printed and the process exits with 1
CliExitCode == IF outcome.kind = "raised" THEN 1 ELSE 0

\* the tool handler: the results as text, or the failure payload
McpPayload == IF outcome.kind = "raised" THEN "isError" ELSE "content"

\* the caller receives the settled promise
Finish ==
    /\ pc = "settled"
    /\ pc' = "done"
    /\ host' = CASE call.caller = "cli" -> [exitCode |-> CliExitCode, payload |-> "none"]
                 [] call.caller = "mcp" -> [exitCode |-> -1, payload |-> McpPayload]
                 [] OTHER -> host
    /\ UNCHANGED <<call, headless, ckpt, attempts, bvars, svars, results, error, outcome,
                   gvars, xvars>>

Next ==
    \/ Begin \/ Launch \/ NewContext \/ NewPage \/ Goto
    \/ ClosePage \/ CloseContext \/ LaunchTemp \/ TempContext \/ CloseTemp \/ CloseBrowser
    \/ WaitForNavigation \/ WaitForLoadState \/ FindInput \/ Submit
    \/ WaitForSelector \/ RetrySelector \/ Evaluate \/ Content
    \/ SaveState \/ CloseAndReturn \/ CatchSave \/ CatchClose \/ Finish

Spec == Init /\ [][Next]_vars

\* every pending await returns or times out, and the continuation then runs
SpecLive == Init /\ [][Next]_vars /\ WF_vars(Next)


\* ------------------------------------------------------- extraction alone
\* page.evaluate applied to one document with one maxResults.

MaxContainers == 2
MaxAnchors == 2
MaxNodes == 4
MaxLimit2 == 5

Container(matches, titleEl, titleText, inTitle, ancestor, first, snippetEl, textDiv) ==
    [matches |-> matches, titleEl |-> titleEl, titleText |-> titleText,
     linkInTitle |-> inTitle, ancestorLink |-> ancestor, containerLink |-> first,
     snippetEl |-> snippetEl, altSnippetEl |-> Null, textDiv |-> textDiv]

\* the result containers a document is built from
ContainerShapes ==
    {Container({1}, TRUE, TextA, Null, Null, Some(LinkA), Some(TextS), Null),
     Container({1, 3}, TRUE, TextB, Some(LinkB), Null, Some(LinkB), Null, Some(TextS)),
     Container({1}, TRUE, TextBlank, Null, Some(LinkA), Some(LinkA), Null, Null),
     Container({3}, TRUE, TextB, Null, Some(LinkA), Some(LinkB), Some(TextS), Null),
     Container({2}, FALSE, TextEmpty, Null, Null, Some(LinkA), Null, Null),
     Container({4}, TRUE, TextA, Some(LinkFtp), Null, Some(LinkA), Null, Null),
     Container({4}, TRUE, TextA, Some(LinkHttpx), Null, Null, Null, Null),
     Container({2}, TRUE, TextA, Null, Null, Null, Null, Null)}

\* the anchors a document is built from
AnchorShapes ==
    {[href |-> LinkA, text |-> TextA, parents |-> <<TextA>>],
     [href |-> LinkB, text |-> TextB, parents |-> <<TextB, TextS>>],
     [href |-> LinkB, text |-> TextBlank, parents |-> <<>>],
     [href |-> LinkGoogle, text |-> TextA, parents |-> <<TextA>>],
     [href |-> LinkGoogleUk, text |-> TextA, parents |-> <<TextA>>],
     [href |-> LinkFtp, text |-> TextA, parents |-> <<TextA>>],
     [href |-> LinkHttpx, text |-> TextB, parents |-> <<>>]}

SeqsUpTo(S, n) == UNION {[1..k -> S] : k \in 0..n}

\* every node carries its position in the document as its identity
WithIds(nodes, kind) == [i \in 1..Len(nodes) |-> [id |-> <<kind, i>>] @@ nodes[i]]

\* the documents: up to MaxContainers containers and MaxAnchors anchors, and
\* up to MaxNodes of them together
Docs ==
    {[containers |-> WithIds(d[1], "container"), anchors |-> WithIds(d[2], "anchor")] :
        d \in {e \in SeqsUpTo(ContainerShapes, MaxContainers)
                        \X SeqsUpTo(AnchorShapes, MaxAnchors) :
                    Len(e[1]) + Len(e[2]) <= MaxNodes}}

\* twice maxResults: -1.5, -1, -0.5, 0, 0.5, 1, 1.5, ...
LimitValues2 == (0 - 3)..MaxLimit2

ExtractInit ==
    /\ call = ApiSearch(FALSE, FALSE)
    /\ pc = "page.evaluate"
    /\ headless = TRUE
    /\ ckpt = 0
    /\ attempts = <<>>
    /\ browsers = <<>>
    /\ browser = 0
    /\ newBrowser = 0
    /\ contexts = <<>>
    /\ context = 0
    /\ page = NoPage
    /\ storageState = FALSE
    /\ savedState = EmptySavedState
    /\ selectedDomain = ""
    /\ files = [dir |-> TRUE, session |-> "absent", fingerprint |-> AbsentFile]
    /\ saves = <<>>
    /\ results = <<>>
    /\ error = Null
    /\ outcome = NoOutcome
    /\ host = NoHost
    /\ faults = {}
    /\ detections = <<>>
    /\ doc \in Docs
    /\ maxResults2 \in LimitValues2
    /\ extracted = Null
    /\ gathered = Null
    /\ hostNow = NoSignals
    /\ hostConfig = Null
    /\ pathArg = <<>>
    /\ derivedFile = Null
    /\ savedOutput = Null
    /\ handlers = <<>>
    /\ shared = NoWrites

\* the closure runs in the page
ExtractPage ==
    /\ pc = "page.evaluate"
    /\ extracted = Null
    /\ LET acc == PrimaryResults(doc, maxResults2)
           all == FallbackPass(acc, doc.anchors, maxResults2).results
       IN  /\ gathered' = Some([primary |-> acc.results, all |-> all])
           /\ extracted' = Some(Slice(all, maxResults2))
    /\ UNCHANGED <<call, ctl, bvars, svars, rvars, gvars, doc, maxResults2, hostNow, hostConfig,
                   pvars, cvars>>

ExtractNext == ExtractPage

SpecExtract == ExtractInit /\ [][ExtractNext]_vars


\* ------------------------------------------------ identity generation alone
\* getHostMachineConfig applied to one reading of the host: LANG, the value of
\* getTimezoneOffset() and the value of getHours().

MaxOffsetEast == 840
MaxOffsetWest == 720
MaxHour == 23


HostInit ==
    /\ call = ApiSearch(FALSE, FALSE)
    /\ pc = "getHostMachineConfig"
    /\ headless = TRUE
    /\ ckpt = 0
    /\ attempts = <<>>
    /\ browsers = <<>>
    /\ browser = 0
    /\ newBrowser = 0
    /\ contexts = <<>>
    /\ context = 0
    /\ page = NoPage
    /\ storageState = FALSE
    /\ savedState = EmptySavedState
    /\ selectedDomain = ""
    /\ files = [dir |-> TRUE, session |-> "absent", fingerprint |-> AbsentFile]
    /\ saves = <<>>
    /\ results = <<>>
    /\ error = Null
    /\ outcome = NoOutcome
    /\ host = NoHost
    /\ faults = {}
    /\ detections = <<>>
    /\ doc = EmptyDoc
    /\ maxResults2 = 0
    /\ extracted = Null
    /\ gathered = Null
    /\ hostNow \in [lang : {"", "en_US.UTF-8"}, timezoneOffset : (0 - MaxOffsetEast)..MaxOffsetWest, hour : 0..MaxHour]
    /\ hostConfig = Null
    /\ pathArg = <<>>
    /\ derivedFile = Null
    /\ savedOutput = Null
    /\ handlers = <<>>
    /\ shared = NoWrites

\* const hostConfig = getHostMachineConfig(locale)
GenerateIdentity ==
    /\ pc = "getHostMachineConfig"
    /\ hostConfig = Null
    /\ \E userLocale \in {"", "ko-KR"} :
         hostConfig' = Some(getHostMachineConfig(userLocale, hostNow))
    /\ UNCHANGED <<call, ctl, bvars, svars, rvars, gvars, doc, maxResults2, extracted, gathered,
                   hostNow, pvars, cvars>>

HostNext == GenerateIdentity

SpecHost == HostInit /\ [][HostNext]_vars


\* ---------------------------------------------------- path derivation alone
\* The two places that derive one file path from another: the identity file
\* path from stateFile, and the screenshot path from outputPath inside the
\* saveToFile block of getGoogleSearchPageHtml.

MaxPieces == 4

DotHtml == <<".", "h", "t", "m", "l">>

\* the pieces a path is put together from
PathPieces == {<<"a">>, <<"/">>, DotJson, DotHtml}

RECURSIVE Concat(_)
Concat(pieces) == IF pieces = <<>> THEN <<>> ELSE Head(pieces) \o Concat(Tail(pieces))

\* the paths of files: no trailing separator
Paths ==
    {p \in {Concat(ps) : ps \in SeqsUpTo(PathPieces, MaxPieces)} :
        p # <<>> /\ ~EndsWith(p, <<"/">>)}

\* `${outputDir}/${sanitizedQuery}-${timestamp}.html`
GeneratedOutputPath == <<"g", "/", "q", "-", "t">> \o DotHtml

\* const screenshotFilePath = outputPath.replace(/\.html$/, '.png')
screenshotFilePath(outputPath) == ReplaceAtEnd(outputPath, DotHtml, <<".", "p", "n", "g">>)

\* the saveToFile block: the HTML is written to outputPath, then the
\* screenshot to screenshotFilePath; disk maps each written path to what it holds
SaveToFile(saveToFile, outputPath) ==
    IF ~saveToFile
    THEN [savedPath |-> Null, screenshotPath |-> Null, disk |-> <<>>]
    ELSE LET out == IF outputPath = Null THEN GeneratedOutputPath ELSE outputPath[1]
             shot == screenshotFilePath(out)
         IN  [savedPath |-> Some(out), screenshotPath |-> Some(shot),
              disk |-> IF shot = out
                       THEN <<[path |-> out, holds |-> "png"]>>
                       ELSE <<[path |-> out, holds |-> "html"],
                              [path |-> shot, holds |-> "png"]>>]

PathInit ==
    /\ call = ApiSearch(FALSE, FALSE)
    /\ pc = "paths"
    /\ headless = TRUE
    /\ ckpt = 0
    /\ attempts = <<>>
    /\ browsers = <<>>
    /\ browser = 0
    /\ newBrowser = 0
    /\ contexts = <<>>
    /\ context = 0
    /\ page = NoPage
    /\ storageState = FALSE
    /\ savedState = EmptySavedState
    /\ selectedDomain = ""
    /\ files = [dir |-> TRUE, session |-> "absent", fingerprint |-> AbsentFile]
    /\ saves = <<>>
    /\ results = <<>>
    /\ error = Null
    /\ outcome = NoOutcome
    /\ host = NoHost
    /\ faults = {}
    /\ detections = <<>>
    /\ doc = EmptyDoc
    /\ maxResults2 = 0
    /\ extracted = Null
    /\ gathered = Null
    /\ hostNow = NoSignals
    /\ hostConfig = Null
    /\ pathArg \in Paths
    /\ derivedFile = Null
    /\ savedOutput = Null
    /\ handlers = <<>>
    /\ shared = NoWrites

\* const fingerprintFile = stateFile.replace(".json", "-fingerprint.json")
DeriveFingerprintFile ==
    /\ pc = "paths"
    /\ derivedFile = Null
    /\ derivedFile' = Some(fingerprintFile(pathArg))
    /\ UNCHANGED <<call, ctl, bvars, svars, rvars, gvars, doc, maxResults2, extracted, gathered,
                   hostNow, hostConfig, pathArg, savedOutput, cvars>>

\* if (saveToFile) { ... }, with the path handed in or left out
RunSaveToFile ==
    /\ pc = "paths"
    /\ savedOutput = Null
    /\ \E saveToFile \in BOOLEAN, outputPath \in {Null, Some(pathArg)} :
         savedOutput' = Some(SaveToFile(saveToFile, outputPath))
    /\ UNCHANGED <<call, ctl, bvars, svars, rvars, gvars, doc, maxResults2, extracted, gathered,
                   hostNow, hostConfig, pathArg, derivedFile, cvars>>

PathNext == DeriveFingerprintFile \/ RunSaveToFile

SpecPath == PathInit /\ [][PathNext]_vars


\* ---------------------------------------------------- concurrent calls alone
\* Calls of googleSearch that the tool handler runs at the same time against
\* one stateFile, persistence enabled. Each call is followed from the end of
\* its pipeline through its save block; a call is suspended at every await,
\* and the other calls run in between.

MaxCalls == 2

CallIds == 1..MaxCalls

RaceInit ==
    /\ call = McpCall
    /\ pc = "handlers"
    /\ headless = TRUE
    /\ ckpt = 0
    /\ attempts = <<>>
    /\ browsers = <<>>
    /\ browser = 0
    /\ newBrowser = 0
    /\ contexts = <<>>
    /\ context = 0
    /\ page = NoPage
    /\ storageState = FALSE
    /\ savedState = EmptySavedState
    /\ selectedDomain = ""
    /\ files = [dir |-> TRUE, session |-> "absent", fingerprint |-> AbsentFile]
    /\ saves = <<>>
    /\ results = <<>>
    /\ error = Null
    /\ outcome = NoOutcome
    /\ host = NoHost
    /\ faults = {}
    /\ detections = <<>>
    /\ doc = EmptyDoc
    /\ maxResults2 = 0
    /\ extracted = Null
    /\ gathered = Null
    /\ hostNow = NoSignals
    /\ hostConfig = Null
    /\ pathArg = <<>>
    /\ derivedFile = Null
    /\ savedOutput = Null
    /\ handlers = [c \in CallIds |-> [pc |-> "pipeline", block |-> "none"]]
    /\ shared = NoWrites

RaceUnchanged ==
    UNCHANGED <<call, ctl, bvars, svars, rvars, gvars, doc, maxResults2, extracted, gathered,
                hostNow, hostConfig, pvars>>

\* the pipeline of a call ends: in the try block, or by a throw into the catch
EndPipeline(c) ==
    /\ pc = "handlers"
    /\ handlers[c].pc = "pipeline"
    /\ \E block \in {"try", "catch"} :
         handlers' = [handlers EXCEPT ![c] = [pc |-> "storageState", block |-> block]]
    /\ UNCHANGED shared
    /\ RaceUnchanged

\* await context.storageState({path: stateFile}): the session file is
\* written while the call is suspended, or the write fails
WriteSession(c) ==
    /\ pc = "handlers"
    /\ handlers[c].pc = "storageState"
    /\ \E ok \in BOOLEAN :
         IF ok
         THEN /\ shared' = [shared EXCEPT !.session = c]
              /\ handlers' = [handlers EXCEPT ![c].pc = "writeFile"]
         ELSE /\ handlers' = [handlers EXCEPT ![c].pc = "close"]
              /\ UNCHANGED shared
    /\ RaceUnchanged

\* the call resumes: fs.writeFileSync(fingerprintFile, ...), a failure of
\* which is caught and logged
WriteIdentity(c) ==
    /\ pc = "handlers"
    /\ handlers[c].pc = "writeFile"
    /\ \E ok \in BOOLEAN :
         shared' = IF ok THEN [shared EXCEPT !.identity = c] ELSE shared
    /\ handlers' = [handlers EXCEPT ![c].pc = "close"]
    /\ RaceUnchanged

\* the supplied browser is left open and the call returns
ReturnCall(c) ==
    /\ pc = "handlers"
    /\ handlers[c].pc = "close"
    /\ handlers' = [handlers EXCEPT ![c].pc = "done"]
    /\ UNCHANGED shared
    /\ RaceUnchanged

RaceNext ==
    \E c \in CallIds : EndPipeline(c) \/ WriteSession(c) \/ WriteIdentity(c) \/ ReturnCall(c)

SpecRace == RaceInit /\ [][RaceNext]_vars


\* ------------------------------------------------------------ properties

\* the list before the final slice
Unsliced == FallbackPass(PrimaryResults(doc, maxResults2), doc.anchors, maxResults2).results

\* every candidate in the order the two passes visit them: the containers with
\* a title node, selector set by selector set, then the http anchors
RECURSIVE PrimaryOrder(_, _)
PrimaryOrder(containers, sel) ==
    IF sel > NumSelectorSets THEN <<>>
    ELSE QuerySelectorAll(containers, sel) \o PrimaryOrder(containers, sel + 1)

Occurrences ==
    LET primary == SelectSeq(PrimaryOrder(doc.containers, 1), LAMBDA c : c.titleEl)
        fallback == HttpAnchors(doc.anchors)
    IN  [i \in 1..Len(primary) |->
            [id |-> primary[i].id, link |-> ResolveLink(primary[i]),
             title |-> Trim(primary[i].titleText)]]
        \o [i \in 1..Len(fallback) |->
            [id |-> fallback[i].id, link |-> fallback[i].href,
             title |-> Trim(fallback[i].text)]]

\* the first occurrence, among those satisfying Keep, that offers the link
FirstOffering(link, Keep(_)) ==
    LET occ == Occurrences
        at == {i \in 1..Len(occ) : occ[i].link = link /\ Keep(occ[i])}
    IN  IF at = {} THEN <<"none", 0>>
        ELSE occ[CHOOSE i \in at : \A j \in at : i <= j].id

NoDuplicateLinks(list) ==
    \A i, j \in 1..Len(list) : i # j => list[i].link # list[j].link

\* C9 as stated: for every maxResults N the returned list has length <= N
C9_LengthAtMostN ==
    extracted # Null => 2 * Len(extracted[1]) <= maxResults2

\* C9 amended: the returned list has length <= N for every N >= 0 (also a
\* non-integer N), and is empty for every negative N
C9_LengthAtMostNonNegativeN ==
    extracted # Null =>
        /\ 2 * Len(extracted[1]) <= Max(maxResults2, 0)
        /\ maxResults2 < 0 => extracted[1] = <<>>

\* C9 witness: maxResults = 1.5, the passes gathered two records and the slice cut one
C9_Witness ==
    /\ extracted # Null
    /\ maxResults2 = 3
    /\ Len(Unsliced) = 2
    /\ Len(extracted[1]) = 1

\* C10 as stated: no two returned records share a link, and the record kept
\* for a link is the one from the first occurrence that offers the link
C10_FirstOccurrenceWins ==
    extracted # Null =>
        /\ NoDuplicateLinks(extracted[1])
        /\ \A i \in 1..Len(extracted[1]) :
             extracted[1][i].src = FirstOffering(extracted[1][i].link, LAMBDA o : TRUE)

\* C10 amended: no two returned records share a link, and the record kept
\* for a link is the one from the first occurrence that offers the link with
\* a non-empty title
C10_FirstTitledOccurrenceWins ==
    extracted # Null =>
        /\ NoDuplicateLinks(extracted[1])
        /\ \A i \in 1..Len(extracted[1]) :
             extracted[1][i].src =
                FirstOffering(extracted[1][i].link, LAMBDA o : o.title # TextEmpty)

\* C10 witness: a returned link that two titled occurrences offer
C10_Witness ==
    /\ extracted # Null
    /\ \E i \in 1..Len(extracted[1]) :
         Cardinality({k \in 1..Len(Occurrences) :
                        /\ Occurrences[k].link = extracted[1][i].link
                        /\ Occurrences[k].title # TextEmpty}) >= 2

\* a Result Record: a non-empty title and a link that begins with http:// or
\* https://
IsResultRecord(r) ==
    /\ r.title # TextEmpty
    /\ StartsWith(r.link, HttpScheme) \/ StartsWith(r.link, HttpsScheme)

\* C11: every record the extraction returns, from either pass, has a
\* non-empty title and a link that starts with http:// or https://
C11_ExtractedRecordsValid ==
    extracted # Null => \A i \in 1..Len(extracted[1]) : IsResultRecord(extracted[1][i])


\* ------------------------------------------------- properties of the run

Settled == pc \in {"settled", "done"}

\* the pipeline went through without a fatal error
Succeeded == outcome.kind = "returned" /\ error = Null

\* the pipeline hit a fatal error: the catch block ran or the promise rejected
FailedFatally == outcome.kind = "raised" \/ error # Null

EscalationSteps == {"closePage", "closeContext", "launchTemp", "tempContext",
                    "closeTemp", "closeBrowser"}

\* the positions a successful wait in assisted mode resumes at
ResumePoints == {"findInput", "waitForLoadState", "retrySelector"}

CurrentOpen ==
    /\ page.open
    /\ context # 0 /\ contexts[context].open
    /\ browser # 0 /\ browsers[browser].open

C2_SuppliedBrowserNeverClosed ==
    call.existingBrowser => browsers[1].closeCalls = 0 /\ browsers[1].open

\* C2 witness: runs with a supplied browser ended after an escalation, with
\* an error record
C2_Witness ==
    /\ call.existingBrowser
    /\ pc = "done"
    /\ Len(attempts) = 2
    /\ error # Null

\* C3: after an escalation with a supplied browser the assisted attempt
\* works in a browser the run launched in visible mode
C3_AssistedAttemptInOwnBrowser ==
    (call.existingBrowser /\ ~headless /\ page.open) =>
        /\ browsers[contexts[context].browser].kind # "external"
        /\ ~browsers[contexts[context].browser].headless

\* C4: a detection in automated mode starts the teardown and sets neither an
\* error nor an outcome; the teardown is left, unless a browser primitive fails,
\* only by the restart; and the restart finds page and context closed, the mode
\* assisted, and no error and no outcome
C4_DetectionStep ==
    (detections' # detections /\ headless) =>
        /\ pc' = "closePage"
        /\ error' = Null /\ outcome' = NoOutcome

C4_TeardownStep ==
    (pc \in EscalationSteps /\ pc' \notin EscalationSteps /\ faults' = faults) =>
        /\ pc' = "launch"
        /\ ~headless' /\ Len(attempts') = Len(attempts) + 1
        /\ ~page'.open /\ ~contexts'[context'].open
        /\ error' = Null /\ outcome' = NoOutcome

C4_EscalationRestarts ==
    [][C4_DetectionStep /\ C4_TeardownStep]_vars

\* C4 witness: a detection at the third checkpoint has led to the restart
C4_Witness ==
    /\ pc = "launch"
    /\ Len(attempts) = 2
    /\ detections[1].ckpt = 3

\* C5: a detection in assisted mode leaves page, context and browser open
\* and starts no attempt; the wait ends either on a URL without a marker, at the
\* checkpoint's continuation on the same open page, or in the catch block
C5_DetectionStep ==
    (detections' # detections /\ ~headless) =>
        /\ pc' = "waitForNavigation"
        /\ CurrentOpen' /\ context' = context /\ browser' = browser
        /\ attempts' = attempts

C5_WaitStep ==
    (pc = "waitForNavigation" /\ pc' # pc) =>
        \/ /\ pc' \in ResumePoints
           /\ ~IsBlockedUrl(page'.url)
           /\ CurrentOpen' /\ context' = context /\ browser' = browser
           /\ attempts' = attempts /\ error' = Null
        \/ /\ pc' = "catchSave"
           /\ error' # Null
           /\ attempts' = attempts

C5_AssistedWaitsInPlace ==
    [][C5_DetectionStep /\ C5_WaitStep]_vars

\* C5 witness: a run that waited in assisted mode at the second checkpoint
\* returned its results
C5_Witness ==
    /\ pc = "done"
    /\ Succeeded
    /\ \E i \in 1..Len(detections) : ~detections[i].headless /\ detections[i].ckpt = 2

\* C6: googleSearch never raises; on a fatal condition it returns exactly
\* one error record
C6_SearchNeverRaises ==
    (call.op = "search" /\ Settled) =>
        /\ outcome.kind = "returned"
        /\ FailedFatally => \E msg \in {"launch", "newContext", "newPage", "goto",
                                        "page.close", "context.close", "browser.close",
                                        "waitForNavigation", "waitForLoadState",
                                        "searchInput", "submit", "searchResults", "evaluate"} :
                               outcome.response = Some(ErrorResponse(msg))

\* C7: the command line exits with 0 exactly when the pipeline succeeded
C7_CliExitCode ==
    (call.caller = "cli" /\ pc = "done") =>
        (host.exitCode = 0 <=> Succeeded)

\* C8: the tool handler returns the failure payload whenever the search
\* failed fatally, and the success payload only when it succeeded
C8_McpFailurePayload ==
    (call.caller = "mcp" /\ pc = "done") =>
        (host.payload = "content" <=> Succeeded)


\* C12: every record of every response googleSearch returns, on success and
\* on failure, is a Result Record
C12_ReturnedRecordsValid ==
    (call.op = "search" /\ outcome.kind = "returned") =>
        \A i \in 1..Len(outcome.response[1]) : IsResultRecord(outcome.response[1][i])

\* the locale, timezone and appearance values of a context are those of a
\* fingerprint
AppliesIdentity(options, fingerprint) ==
    /\ options.locale = fingerprint.locale
    /\ options.timezoneId = fingerprint.timezoneId
    /\ options.colorScheme = fingerprint.colorScheme
    /\ options.reducedMotion = fingerprint.reducedMotion
    /\ options.forcedColors = fingerprint.forcedColors

\* the identity file holds an identity that an earlier run saved
IdentityStored ==
    /\ files.fingerprint.kind = "json"
    /\ files.fingerprint.value.json = "object"
    /\ files.fingerprint.value.fingerprint # Null

\* C13: while the identity file that an earlier run saved is in place (no
\* save of this run has replaced it yet), every context of the run carries
\* the stored locale, timezoneId, colorScheme, reducedMotion and forcedColors
C13_StoredIdentityApplied ==
    (IdentityStored /\ saves = <<>>) =>
        \A i \in 1..Len(contexts) :
            AppliesIdentity(contexts[i].options, files.fingerprint.value.fingerprint[1])

\* the run is past browser.newContext, and neither chromium.launch nor
\* browser.newContext was made to fail
PastNewContext ==
    /\ pc \notin {"begin", "launch", "newContext"}
    /\ faults \cap {"launch", "newContext"} = {}

\* the identity file exists and holds no identity object: text that does not
\* parse, or the JSON text of null or of a number
IdentityInvalid ==
    \/ files.fingerprint.kind = "corrupt"
    \/ files.fingerprint.kind = "json" /\ files.fingerprint.value.json # "object"

\* C14: an identity file that holds no valid identity object is discarded:
\* the run goes on with a context that carries a freshly generated identity
C14_InvalidIdentityDiscarded ==
    (storageState /\ IdentityInvalid /\ saves = <<>> /\ PastNewContext) =>
        /\ context # 0
        /\ savedState.fingerprint # Null
        /\ \E signals \in HostSignals :
              AppliesIdentity(contexts[context].options,
                              getHostMachineConfig(call.locale, signals))

\* C15: a corrupt session file does not abort the run: the run goes on with
\* a context that was given no session blob
C15_CorruptSessionIgnored ==
    (files.session = "corrupt" /\ PastNewContext) =>
        /\ context # 0
        /\ contexts[context].storageState = "none"

C17_CliNoSaveState ==
    (call.caller = "cli" /\ call.flagNoSaveState) =>
        /\ saves = <<>>
        /\ files.session # "blob1"

\* C18: with persistence enabled, a save was attempted whenever the call
\* has settled after a fatal error
C18_SaveAttemptedOnFailure ==
    (~call.noSaveState /\ Settled /\ FailedFatally) => saves # <<>>

\* C19: when the save that follows the extraction fails, no error is
\* recorded and the run goes on to close the browser; unless browser.close
\* fails, googleSearch returns the extracted records with the query
C19_SaveFailureSwallowed ==
    (call.op = "search" /\ saves # <<>> /\ saves[1].block = "try" /\ saves[1].failed # {}) =>
        /\ "browser.close" \notin faults =>
              /\ error = Null
              /\ pc \in {"close", "settled", "done"}
        /\ (Settled /\ "browser.close" \notin faults) =>
              outcome = [kind |-> "returned", query |-> call.query, response |-> Some(results)]

\* C19 witness: googleSearch returned extracted records although writing the
\* identity file failed
C19_Witness ==
    /\ pc = "done"
    /\ call.op = "search"
    /\ saves = <<[block |-> "try", failed |-> {"writeFile"}]>>
    /\ results # <<>>
    /\ outcome.kind = "returned"
    /\ outcome.response = Some(results)

\* C20: once no query input was found, nothing is typed or submitted, no
\* extraction result exists, no attempt is started, the run is in its catch
\* block or settled, and the caller gets the error record (googleSearch) or the
\* error (getGoogleSearchPageHtml, or a failing browser.close)
C20_InputNotFoundStep ==
    error' = Some("searchInput") =>
        /\ ~page'.submitted
        /\ results' = <<>>
        /\ attempts' = attempts
        /\ pc' \in {"catchSave", "catchClose", "settled", "done"}
        /\ outcome'.kind # "none" =>
              \/ /\ outcome'.kind = CatchOutcome("searchInput").kind
                 /\ outcome' = CatchOutcome("searchInput")
              \/ /\ outcome'.kind = "raised"
                 /\ outcome'.response = Some("browser.close")

\* C20: every step of a run satisfies C20_InputNotFoundStep
C20_InputNotFoundFatal ==
    [][C20_InputNotFoundStep]_vars

\* C20 witness: the assisted attempt of an escalated googleSearch found no
\* query input, and the caller received the error record
C20_Witness ==
    /\ pc = "done"
    /\ call.op = "search"
    /\ Len(attempts) = 2
    /\ error = Some("searchInput")
    /\ outcome.kind = "returned"
    /\ outcome.response = Some(ErrorResponse("searchInput"))


\* no call of page.close, context.close or browser.close was made to fail
NoCloseFault == faults \cap {"page.close", "context.close", "browser.close"} = {}

\* every browser instance that the run launched is closed
LaunchedBrowsersClosed ==
    \A b \in 1..Len(browsers) : browsers[b].kind # "external" => ~browsers[b].open

\* every browser context that the run opened is closed
ContextsClosed == \A i \in 1..Len(contexts) : ~contexts[i].open

\* C21: a getGoogleSearchPageHtml that failed fatally has raised, and,
\* unless a close call itself failed, every browser it launched is closed
C21_HtmlRaisesAfterClose ==
    (call.op = "html" /\ Settled /\ FailedFatally) =>
        /\ outcome.kind = "raised"
        /\ NoCloseFault => LaunchedBrowsersClosed

\* C23: when googleSearch has settled, unless a close call itself failed,
\* every context it opened and every browser it launched is closed
C23_SearchReleasesResources ==
    (call.op = "search" /\ Settled /\ NoCloseFault) =>
        /\ ContextsClosed
        /\ LaunchedBrowsersClosed


\* C22: once a save of the run has written the session blob to stateFile,
\* the file holds that blob, which is what the next run hands to its context
C22_SessionBlobKept ==
    (\E i \in 1..Len(saves) : saves[i].failed \subseteq {"writeFile"}) =>
        files.session = "blob1"

\* C24: the navigation target is the stored domain binding when the identity
\* file holds one, and a member of the candidate list otherwise
C24_StoredDomainUsed ==
    (selectedDomain # "" /\ saves = <<>>) =>
        IF IdentityStored /\ files.fingerprint.value.googleDomain # Null
        THEN selectedDomain = files.fingerprint.value.googleDomain[1]
        ELSE selectedDomain \in googleDomains

C25_ColorSchemeByHour ==
    hostConfig # Null =>
        /\ hostConfig[1].colorScheme \in {"dark", "light"}
        /\ hostConfig[1].colorScheme = "dark" <=> (hostNow.hour >= 19 \/ hostNow.hour < 7)

\* C25 witness: an identity generated at hour 6 is dark
C25_Witness ==
    /\ hostConfig # Null
    /\ hostNow.hour = 6
    /\ hostConfig[1].colorScheme = "dark"

\* C30: at most one of the offset ranges holds the host's offset, and the
\* inferred timezone is the zone of every range that holds it
C30_RangesExclusive ==
    LET holding == {k \in 1..NumOffsetRanges : InOffsetRange(k, hostNow.timezoneOffset)}
    IN  /\ Cardinality(holding) <= 1
        /\ hostConfig # Null => \A k \in holding : hostConfig[1].timezoneId = RangeZone(k)


\* the records of the primary pass
Primary == PrimaryResults(doc, maxResults2).results

\* an anchor the fallback pass would take right after the primary pass
Eligible(el, primary) ==
    /\ StartsWith(el.href, Http)
    /\ Trim(el.text) # TextEmpty
    /\ ~Includes(el.href, GoogleComSlash)
    /\ ~Includes(el.href, AccountsGoogle)
    /\ ~Includes(el.href, SupportGoogle)
    /\ \A i \in 1..Len(primary) : primary[i].link # el.href

\* the fallback pass runs exactly when the primary pass gathered fewer than
\* maxResults records, keeps the primary records as they are and in front,
\* appends anchors only, and appends no link gathered before
FallbackAppends(primary, all) ==
    /\ 2 * Len(primary) >= maxResults2 => all = primary
    /\ (2 * Len(primary) < maxResults2
          /\ \E k \in 1..Len(doc.anchors) : Eligible(doc.anchors[k], primary))
          => Len(all) > Len(primary)
    /\ Len(all) >= Len(primary)
    /\ SubSeq(all, 1, Len(primary)) = primary
    /\ \A i \in 1..Len(primary) : primary[i].src[1] = "container"
    /\ \A i \in (Len(primary) + 1)..Len(all) : all[i].src[1] = "anchor"
    /\ NoDuplicateLinks(all)

\* C27 as stated: the fallback scan runs iff the primary pass gathered fewer
\* than maxResults records, only appends after them, appends (when it runs)
\* at most maxResults minus the primary count, and appends no link gathered
\* before
C27_FallbackFillsUpToN ==
    extracted # Null =>
        LET primary == gathered[1].primary
            all == gathered[1].all
        IN  /\ FallbackAppends(primary, all)
            /\ 2 * Len(primary) < maxResults2 =>
                  2 * (Len(all) - Len(primary)) <= maxResults2 - 2 * Len(primary)

\* C27 amended: the same, with the appended count at most the ceiling of
\* maxResults minus the primary count
C27_FallbackFillsUpToCeilingN ==
    extracted # Null =>
        LET primary == gathered[1].primary
            all == gathered[1].all
        IN  /\ FallbackAppends(primary, all)
            /\ 2 * Len(primary) < maxResults2 =>
                  Len(all) - Len(primary) <= ((maxResults2 + 1) \div 2) - Len(primary)

\* C27 witness: one primary record, one anchor appended behind it, and an
\* anchor offering the primary link passed over
C27_Witness ==
    /\ extracted # Null
    /\ Len(Primary) = 1
    /\ Len(Unsliced) = 2
    /\ Unsliced[2].src[1] = "anchor"
    /\ \E k \in 1..Len(doc.anchors) :
         /\ doc.anchors[k].href = Primary[1].link
         /\ Trim(doc.anchors[k].text) # TextEmpty

\* the characters of a candidate domain
DomainChars(d) ==
    HttpsScheme \o
    CASE d = "https://www.google.com" -> <<"w", "w", "w", ".", "g", "o", "o", "g", "l", "e", ".", "c", "o", "m">>
      [] d = "https://www.google.co.uk" -> <<"w", "w", "w", ".", "g", "o", "o", "g", "l", "e", ".", "c", "o", ".", "u", "k">>
      [] d = "https://www.google.ca" -> <<"w", "w", "w", ".", "g", "o", "o", "g", "l", "e", ".", "c", "a">>
      [] OTHER -> <<"w", "w", "w", ".", "g", "o", "o", "g", "l", "e", ".", "c", "o", "m", ".", "a", "u">>

\* C28: for each of the four candidate domains, no record of the fallback
\* pass has a link on that domain, on the account pages or on the support pages
C28_NoProviderLinkInFallback ==
    extracted # Null =>
        \A i \in 1..Len(extracted[1]) :
            extracted[1][i].src[1] = "anchor" =>
                /\ \A d \in googleDomains :
                      ~StartsWith(extracted[1][i].link, DomainChars(d) \o <<"/">>)
                /\ ~Includes(extracted[1][i].link, AccountsGoogle)
                /\ ~Includes(extracted[1][i].link, SupportGoogle)

\* the link of a container by the stated priority: the anchor inside the
\* title node, else the ancestor anchor, else the first anchor of the container
PriorityLinkIs(c, link) ==
    /\ c.linkInTitle # Null => link = c.linkInTitle[1]
    /\ (c.linkInTitle = Null /\ c.ancestorLink # Null) => link = c.ancestorLink[1]
    /\ (c.linkInTitle = Null /\ c.ancestorLink = Null /\ c.containerLink # Null)
          => link = c.containerLink[1]
    /\ (c.linkInTitle = Null /\ c.ancestorLink = Null /\ c.containerLink = Null)
          => link = EmptyLink

\* the links the anchors of a container offer, and the empty link
OfferedLinks(c) ==
    {EmptyLink} \cup {x[1] : x \in {c.linkInTitle, c.ancestorLink, c.containerLink} \ {Null}}

\* C29: the link of every primary record is the one its container offers at
\* the highest priority present; a container whose link at that priority is
\* empty, does not start with http, or was gathered before yields no record
C29_LinkByPriority ==
    extracted # Null =>
        LET primary == gathered[1].primary
        IN  /\ \A i \in 1..Len(primary) :
                  /\ primary[i].src[1] = "container"
                  /\ PriorityLinkIs(doc.containers[primary[i].src[2]], primary[i].link)
                  /\ primary[i].link # EmptyLink
                  /\ StartsWith(primary[i].link, Http)
                  /\ \A j \in 1..(i - 1) : primary[j].link # primary[i].link
                                             /\ primary[j].src # primary[i].src
            /\ \A k \in 1..Len(doc.containers) :
                  (\E link \in OfferedLinks(doc.containers[k]) :
                        /\ PriorityLinkIs(doc.containers[k], link)
                        /\ link = EmptyLink \/ ~StartsWith(link, Http))
                      => \A i \in 1..Len(primary) : primary[i].src # doc.containers[k].id

\* C29 witness: a record whose link comes from the ancestor anchor while the
\* first anchor of its container offers another link, next to a container
\* whose in-title link is rejected although a lower anchor offers a valid link
C29_Witness ==
    /\ extracted # Null
    /\ \E i \in 1..Len(Primary) :
         LET c == doc.containers[Primary[i].src[2]]
         IN  /\ c.linkInTitle = Null
             /\ c.ancestorLink # Null
             /\ c.containerLink # c.ancestorLink
             /\ Primary[i].link = c.ancestorLink[1]
    /\ \E k \in 1..Len(doc.containers) :
         /\ doc.containers[k].linkInTitle = Some(LinkFtp)
         /\ doc.containers[k].containerLink = Some(LinkA)
         /\ \A i \in 1..Len(Primary) : Primary[i].src # doc.containers[k].id


\* C31: each documented offset gets its documented zone: -540 Asia/Seoul,
\* -480 Asia/Shanghai, -420 Asia/Bangkok, 0 Europe/London, 300 America/New_York
C31_DocumentedOffsets ==
    hostConfig # Null =>
        /\ hostNow.timezoneOffset = 0 - 540 => hostConfig[1].timezoneId = "Asia/Seoul"
        /\ hostNow.timezoneOffset = 0 - 480 => hostConfig[1].timezoneId = "Asia/Shanghai"
        /\ hostNow.timezoneOffset = 0 - 420 => hostConfig[1].timezoneId = "Asia/Bangkok"
        /\ hostNow.timezoneOffset = 0 => hostConfig[1].timezoneId = "Europe/London"
        /\ hostNow.timezoneOffset = 300 => hostConfig[1].timezoneId = "America/New_York"


\* C32: for every stateFile path the identity file path differs from
\* stateFile, and is stateFile with only its .json extension replaced
C32_IdentityPathApart ==
    derivedFile # Null =>
        /\ derivedFile[1] # pathArg
        /\ EndsWith(pathArg, DotJson) =>
              derivedFile[1] = SubSeq(pathArg, 1, Len(pathArg) - Len(DotJson)) \o FingerprintSuffix

\* C39: with saveToFile the screenshot path differs from the HTML path and
\* the file at savedPath holds the HTML; without saveToFile nothing is written
\* and savedPath and screenshotPath are absent
C39_ScreenshotApart ==
    savedOutput # Null =>
        LET o == savedOutput[1]
        IN  \/ o.savedPath = Null /\ o.screenshotPath = Null /\ o.disk = <<>>
            \/ /\ o.savedPath # Null /\ o.screenshotPath # Null
               /\ o.screenshotPath # o.savedPath
               /\ \E i \in 1..Len(o.disk) :
                     o.disk[i].path = o.savedPath[1] /\ o.disk[i].holds = "html"


\* C33: every call reaches a terminal state (response returned or error
\* raised), and no run starts more than two attempts, whatever challenges are
\* detected
C33_Terminates ==
    /\ [](Len(attempts) <= 2)
    /\ <>Settled

\* C33 witness: a call that was challenged in its first attempt and again in
\* the restarted one, and is finished
C33_Witness ==
    /\ pc = "done"
    /\ Len(attempts) = 2
    /\ Len(detections) >= 2


\* the contexts that performSearch made for its attempts (not the one of the
\* temporary browser)
AttemptContexts == {i \in 1..Len(contexts) : browsers[contexts[i].browser].kind # "temp"}

\* C34: the attempts of one run give their contexts the same identity
\* (device profile, locale, timezone, appearance), and the target domain of a
\* run, once selected, is the one every later navigation of the run selects
C34_EscalationKeepsIdentity ==
    /\ [](\A i, j \in AttemptContexts : contexts[i].options = contexts[j].options)
    /\ [][selectedDomain # "" => selectedDomain' = selectedDomain]_vars


\* the identity file exists only if the session file exists (one file, when
\* both paths name the same file)
IdentityOnlyWithSession(f) ==
    SamePath \/ (f.fingerprint.kind # "absent" => f.session # "absent")

\* C35: a step that writes the identity file is a save step whose session
\* write succeeded; so a step from storage where the identity file exists
\* only with the session file leads to storage of that kind
C35_IdentityAfterSession ==
    [][/\ (files'.fingerprint # files.fingerprint) =>
             (/\ Len(saves') = Len(saves) + 1
              /\ saves'[Len(saves')].failed = {}
              /\ files'.session \in {"blob1", "identity"})
        /\ (IdentityOnlyWithSession(files) => IdentityOnlyWithSession(files'))]_vars

\* C35 witness: a run on storage with neither file, one save block of which
\* failed at the session write and left no identity file
C35_Witness ==
    /\ saves # <<>>
    /\ saves[Len(saves)].failed = {"storageState"}
    /\ ~SamePath
    /\ files.session = "absent"
    /\ files.fingerprint = AbsentFile


\* C37: a run of googleSearch attempts the session save at most once in each
\* attempt, and once the extraction has completed no later step (state save,
\* browser close) keeps its records from being the response
C37_CleanupKeepsRecords ==
    /\ [](call.op = "search" => Len(saves) <= 1)
    /\ [][(call.op = "search" /\ pc \in {"saveState", "close"}) =>
             /\ results' = results
             /\ pc' \in {"close", "settled"}
             /\ pc' = "settled" =>
                   (outcome'.kind = "returned" /\ outcome'.response = Some(results))]_vars


\* C38: when the extraction step starts, the URL of the page holds no
\* challenge marker, in either mode
C38_ExtractionOffChallenge ==
    pc = "evaluate" => ~IsBlockedUrl(page.url)


\* C36: once all concurrent calls have finished, the session file and the
\* identity file, if both were written, were written by the same call
C36_LastWriterWroteBoth ==
    (/\ \A c \in CallIds : handlers[c].pc = "done"
     /\ shared.session # 0
     /\ shared.identity # 0) => shared.session = shared.identity

====
